---- MODULE Spec2Model ----
(***************************************************************************)
(* Model of the stage-orchestration engine (src/src/pipeline/base.py) and  *)
(* of the multi-model reviewer (src/src/review/reviewer.py) of the         *)
(* config_setup_pipeline repository.                                       *)
(*                                                                         *)
(* Spec          Pipeline.run over an arbitrary stage list                 *)
(* ReviewSpec    ConfigReviewer.review over its two concurrent sources     *)
(* StagesSpec    Pipeline.run over the nine stages of the generate command *)
(* RunStageSpec  Pipeline.run_stage over an arbitrary stage list           *)
(*                                                                         *)
(* Python lists are 0-based; the sequences here are 1-based, so a loop     *)
(* index idx of the model is Python's idx + 1.                             *)
(***************************************************************************)
EXTENDS Integers, Sequences, FiniteSets, TLC

VARIABLES
    \* ---- Pipeline (base.py) ----
    stages,            \* Pipeline.stages: the names of the stages, in order
    on_progress,       \* Pipeline.on_progress: "none", "returns" or "raises"
    dry_run,           \* argument of Pipeline.run
    start_from,        \* argument of Pipeline.run (NONE when not given)
    stop_after,        \* argument of Pipeline.run (NONE when not given)
    idx,               \* loop index of Pipeline.run (= _current_stage_idx + 1)
    pc,                \* position of the control flow inside Pipeline.run
    current_stage,     \* PipelineContext.current_stage
    completed_stages,  \* PipelineContext.completed_stages
    entry_completed,   \* completed_stages of the context handed to run
    calls,             \* every call made on a stage: [op, idx, out]
    notified,          \* every call of on_progress: <<name, index, total>>
    error,             \* what Pipeline.run raised, or NOERROR: the class of
                       \* the exception and the stage name its message carries
    concrete,          \* the stages are the classes of stages.py (TRUE), or
                       \* arbitrary subclasses of PipelineStage (FALSE)
    flags,             \* the constructor arguments of the stages of stages.py
    context,           \* the data fields of the PipelineContext
    disk,              \* the files under the output path: path -> content
    \* ---- ConfigReviewer (reviewer.py) ----
    openai_key,        \* ConfigReviewer.openai_key is set
    gemini_key,        \* ConfigReviewer.gemini_key is set
    issues,            \* ConfigReviewer.issues: the pool of findings
    rpc,               \* position of the control flow inside review
    futures,           \* per source: "unsubmitted", "running", "hung" or "done"
    responded,         \* per source: what the model answered in this call
    results,           \* per source: future.result() of its worker
    collected,         \* the sources taken from as_completed, in order
    returned,          \* the "issues" of the dict that review returned
    entry_pool,        \* ConfigReviewer.issues when review was entered
    ncalls,            \* the number of review calls made on the instance
    catalogue          \* the findings the models can report on the config

svars == <<concrete, flags, context, disk>>

pvars == <<stages, on_progress, dry_run, start_from, stop_after, idx, pc,
           current_stage, completed_stages, entry_completed, calls,
           notified, error, svars>>

rvars == <<openai_key, gemini_key, issues, rpc, futures, responded, results,
           collected, returned, entry_pool, ncalls, catalogue>>

vars == <<pvars, rvars>>

\* ------------------------------------------------------------------------
\* Bounds and input sets
\* ------------------------------------------------------------------------
MaxStages == 3

StageNames == {"generation", "validation", "write"}

NONE == "<None>"

NOERROR == [type |-> "<none>", stage |-> "<none>"]

\* an exception that Pipeline.run passes on as its raiser made it: the
\* pipeline puts no stage name on it
UNNAMED == "<unnamed>"

RECURSIVE SeqsUpTo(_, _)
SeqsUpTo(S, n) ==
    IF n = 0 THEN {<<>>}
    ELSE LET shorter == SeqsUpTo(S, n - 1)
         IN  shorter \cup {Append(s, x) : s \in shorter, x \in S}

StageLists == SeqsUpTo(StageNames, MaxStages)

Range(s) == {s[i] : i \in 1..Len(s)}

\* dict.get(key, default)
Get(item, key, default) == IF key \in DOMAIN item THEN item[key] ELSE default

\* ------------------------------------------------------------------------
\* PipelineContext and the stages of stages.py
\* ------------------------------------------------------------------------

\* A value of an Optional field is a record that says who made it; None is
\* the record made by nobody.
None == [by |-> NONE]

IsNone(v) == v.by = NONE

\* PipelineContext(): the Optional fields are None and the lists are empty
EmptyData ==
    [profile |-> None, answers |-> None, patterns |-> None, research |-> None,
     analysis |-> None, generated_files |-> <<>>, validation |-> None,
     review_issues |-> <<>>]

\* a context that a caller filled from an earlier run, for a resume
ReloadedData ==
    [profile |-> [by |-> "caller", api_keys_configured |-> TRUE],
     answers |-> [by |-> "caller"],
     patterns |-> [by |-> "caller"],
     research |-> [by |-> "caller"],
     analysis |-> [by |-> "caller"],
     generated_files |-> <<[path |-> "CLAUDE.md", content |-> "# reloaded"]>>,
     validation |-> None,
     review_issues |-> <<>>]

\* contexts handed to run: a fresh one, or one reloaded for a resume
EntryContexts ==
    {[completed_stages |-> <<>>, data |-> EmptyData],
     [completed_stages |-> <<"generation">>,
      data |-> IF concrete THEN ReloadedData ELSE EmptyData]}

\* stages = [SetupStage(...), ..., WriteStage(...)] of the generate command
CliStages ==
    <<"setup", "discovery", "research", "questionnaire", "analysis",
      "generation", "validation", "review", "write">>

\* --skip-research and --skip-review
CliFlags == [skip_research : BOOLEAN, skip_review : BOOLEAN]

\* should_skip of ResearchStage and ReviewStage; the default returns False
StageShouldSkip(name, ctx) ==
    CASE name = "research" -> flags.skip_research
      [] name = "review" ->
            \/ flags.skip_review
            \/ ~IsNone(ctx.profile) /\ ~ctx.profile.api_keys_configured
      [] OTHER -> FALSE

\* validate_input of the stages; the default returns True
StageValidateInput(name, ctx) ==
    CASE name \in {"analysis", "generation"} -> ~IsNone(ctx.answers)
      [] name \in {"validation", "review", "write"} -> Len(ctx.generated_files) > 0
      [] OTHER -> TRUE

\* the output directory before anything is written to it
EmptyDisk == [q \in {} |-> ""]

\* ConfigGenerator(): self.files = []
NewGeneratorFiles == <<>>

\* self.files after ConfigGenerator.generate(answers): CLAUDE.md,
\* settings.json and the rules (the optional components are not enabled)
GeneratedByGenerate ==
    <<[path |-> "CLAUDE.md", content |-> "# CLAUDE.md"],
      [path |-> ".claude/settings.json", content |-> "{...}"],
      [path |-> ".claude/rules/safety.md", content |-> "# Safety"]>>

\* the "files" of the dict that generate returns: path and size, no content
GenerateReturns ==
    [k \in 1..Len(GeneratedByGenerate) |->
        [path |-> GeneratedByGenerate[k].path, size |-> Len(GeneratedByGenerate[k].content)]]

\* GeneratedFile(path=f["path"], content=f.get("content", ""), ...)
ToGeneratedFiles(files) ==
    [k \in 1..Len(files) |->
        [path |-> files[k].path, content |-> Get(files[k], "content", "")]]

\* for file in self.files: file_path.write_text(file.content)
RECURSIVE WriteConfig(_, _)
WriteConfig(files, d) ==
    IF files = <<>> THEN d
    ELSE LET f == Head(files)
             written == [q \in DOMAIN d \cup {f.path} |->
                            IF q = f.path THEN f.content ELSE d[q]]
         IN  WriteConfig(Tail(files), written)

\* a run that raised: the context is the one the stage was given
Failed(out, ctx) == [out |-> out, context |-> ctx, disk |-> disk]

Returned(ctx) == [out |-> "ok", context |-> ctx, disk |-> disk]

\* run of the stages other than ReviewStage: what it returns or raises, the
\* context it leaves and the files it leaves
SetupStageRun(ctx) ==
    {Returned([ctx EXCEPT !.profile = [by |-> "setup", api_keys_configured |-> b]]) :
        b \in BOOLEAN}
      \cup {Failed("Exception", ctx), Failed("KeyboardInterrupt", ctx)}

ConfigDiscoveryStageRun(ctx) ==
    {Returned([ctx EXCEPT !.patterns = [by |-> "discovery"]]), Failed("Exception", ctx)}

ResearchStageRun(ctx) ==
    {Returned([ctx EXCEPT !.research = [by |-> "research"]]), Failed("Exception", ctx)}

\* if not answers_dict: raise ValueError("Questionnaire cancelled by user")
QuestionnaireStageRun(ctx) ==
    {Returned([ctx EXCEPT !.answers = [by |-> "questionnaire"]]),
     Failed("Exception", ctx), Failed("KeyboardInterrupt", ctx)}

CriticalAnalysisStageRunRaisesFirst(ctx) ==
    LET set(c) == [ctx EXCEPT !.analysis = [by |-> "analysis", concerns |-> c]]
    IN  {Returned(set(FALSE)), Returned(set(TRUE)),
         Failed("Exception", ctx), Failed("KeyboardInterrupt", ctx)}

\* analyze_choices can raise; then context.analysis is set, and only then
\* present_concerns() asks the user, if there are concerns: the user goes on,
\* declines (ValueError) or interrupts the prompt
CriticalAnalysisStageRun(ctx) ==
    LET set(c) == [ctx EXCEPT !.analysis = [by |-> "analysis", concerns |-> c]]
    IN  {Returned(set(FALSE)), Returned(set(TRUE)),
         Failed("Exception", set(TRUE)), Failed("KeyboardInterrupt", set(TRUE)),
         Failed("Exception", ctx)}

GenerationStageRunAppends(ctx) ==
    {Returned([ctx EXCEPT !.generated_files = @ \o ToGeneratedFiles(GenerateReturns)])}

GenerationStageRun(ctx) ==
    {Returned([ctx EXCEPT !.generated_files = ToGeneratedFiles(GenerateReturns)])}

ValidationStageRaisesOnInvalid(ctx) ==
    {Returned([ctx EXCEPT !.validation = [by |-> "validation", is_valid |-> TRUE]]),
     Failed("Exception", ctx)}

\* the report is stored whether it is valid or not
ValidationStageRun(ctx) ==
    {Returned([ctx EXCEPT !.validation = [by |-> "validation", is_valid |-> v]]) :
        v \in BOOLEAN}

WriteStageRunDropsValidation(ctx) ==
    {[out |-> "ok", context |-> [ctx EXCEPT !.validation = None],
      disk |-> WriteConfig(NewGeneratorFiles, disk)],
     Failed("Exception", ctx), Failed("KeyboardInterrupt", ctx)}

\* the path check and Confirm.ask can raise; then a new ConfigGenerator
\* writes its own files
WriteStageRun(ctx) ==
    {[out |-> "ok", context |-> ctx, disk |-> WriteConfig(NewGeneratorFiles, disk)],
     Failed("Exception", ctx), Failed("KeyboardInterrupt", ctx)}

StageRun(name, ctx) ==
    CASE name = "setup" -> SetupStageRun(ctx)
      [] name = "discovery" -> ConfigDiscoveryStageRun(ctx)
      [] name = "research" -> ResearchStageRun(ctx)
      [] name = "questionnaire" -> QuestionnaireStageRun(ctx)
      [] name = "analysis" -> CriticalAnalysisStageRun(ctx)
      [] name = "generation" -> GenerationStageRun(ctx)
      [] name = "validation" -> ValidationStageRun(ctx)
      [] name = "write" -> WriteStageRun(ctx)

\* ------------------------------------------------------------------------
\* Pipeline.run
\* ------------------------------------------------------------------------

FindStartFromEnd(stgs, name, i) ==
    IF \E j \in i..Len(stgs) : stgs[j] = name
    THEN CHOOSE j \in i..Len(stgs) :
             stgs[j] = name /\ \A l \in (j + 1)..Len(stgs) : stgs[l] # name
    ELSE Len(stgs) + 1

\* for i, stage in enumerate(self.stages): if stage.name == start_from: ... break
RECURSIVE FindStart(_, _, _)
FindStart(stgs, name, i) ==
    IF i > Len(stgs) THEN 1
    ELSE IF stgs[i] = name THEN i
    ELSE FindStart(stgs, name, i + 1)

StartIndexNoResume(stgs, name) == 1

StartIndex(stgs, name) ==
    IF name = NONE THEN 1 ELSE FindStart(stgs, name, 1)

Call(op, i, out) == [op |-> op, idx |-> i, out |-> out]

\* what stage.run(context) can do: return a context, raise an Exception, or
\* raise a BaseException that is no Exception (KeyboardInterrupt at a prompt)
RunOutcomes == {"ok", "Exception", "KeyboardInterrupt"}

\* what stage.on_error(context, e) can hand back
OnErrorReturns == {"context", "other context", "None"}

\* The results of the calls on the current stage: those of its class in
\* stages.py, or anything for an arbitrary stage (whose run is taken to leave
\* the data fields alone).
ShouldSkipResults ==
    IF concrete THEN {StageShouldSkip(stages[idx], context)} ELSE BOOLEAN

ValidateInputResults ==
    IF concrete THEN {StageValidateInput(stages[idx], context)} ELSE BOOLEAN

RunResults ==
    IF concrete THEN StageRun(stages[idx], context)
    ELSE {[out |-> o, context |-> context, disk |-> disk] : o \in RunOutcomes}

\* the stages of stages.py inherit on_error: it logs and returns the context
OnErrorResults == IF concrete THEN {"context"} ELSE OnErrorReturns

PipelineInit ==
    /\ stages \in StageLists
    /\ on_progress \in {"none", "returns", "raises"}
    /\ dry_run = FALSE
    /\ start_from = NONE
    /\ stop_after = NONE
    /\ idx = 1
    /\ pc = "idle"
    /\ current_stage = ""
    /\ completed_stages = <<>>
    /\ entry_completed = <<>>
    /\ calls = <<>>
    /\ notified = <<>>
    /\ error = NOERROR
    /\ concrete = FALSE
    /\ flags = [skip_research |-> FALSE, skip_review |-> FALSE]
    /\ context = EmptyData
    /\ disk = EmptyDisk

\* def run(self, context, dry_run, start_from, stop_after): up to the loop
Run ==
    /\ pc = "idle"
    /\ \E ctx \in EntryContexts, d \in BOOLEAN,
          sf \in StageNames \cup {NONE}, sa \in StageNames \cup {NONE} :
          /\ completed_stages' = ctx.completed_stages
          /\ entry_completed' = ctx.completed_stages
          /\ context' = ctx.data
          /\ dry_run' = d
          /\ start_from' = sf
          /\ stop_after' = sa
          /\ idx' = StartIndex(stages, sf)
    /\ pc' = "for"
    /\ UNCHANGED <<stages, on_progress, current_stage, calls, notified, error>>
    /\ UNCHANGED <<concrete, flags, disk, rvars>>

\* the `continue` of the loop body and the fall-through at its end
Continue ==
    /\ idx' = idx + 1
    /\ pc' = "for"

NextStageNotifiesRelativeIndex ==
    /\ pc = "for"
    /\ IF idx > Len(stages)
       THEN /\ pc' = "returned"
            /\ UNCHANGED <<idx, current_stage, notified, error>>
       ELSE /\ current_stage' = stages[idx]
            /\ idx' = idx
            /\ IF on_progress = "none"
               THEN /\ pc' = "skip_check"
                    /\ UNCHANGED <<notified, error>>
               ELSE /\ notified' = Append(notified,
                                  <<stages[idx], idx - StartIndex(stages, start_from) + 1, Len(stages)>>)
                    /\ IF on_progress = "raises"
                       THEN /\ pc' = "raised"
                            /\ error' = [type |-> "ObserverError", stage |-> UNNAMED]
                       ELSE /\ pc' = "skip_check"
                            /\ UNCHANGED error
    /\ UNCHANGED <<stages, on_progress, dry_run, start_from, stop_after,
                   completed_stages, entry_completed, calls>>
    /\ UNCHANGED <<svars, rvars>>

\* for idx, stage in enumerate(self.stages[start_idx:], start=start_idx):
\* current_stage is set and the observer is notified; `return context` when
\* the list is exhausted
NextStage ==
    /\ pc = "for"
    /\ IF idx > Len(stages)
       THEN /\ pc' = "returned"
            /\ UNCHANGED <<idx, current_stage, notified, error>>
       ELSE /\ current_stage' = stages[idx]
            /\ idx' = idx
            /\ IF on_progress = "none"
               THEN /\ pc' = "skip_check"
                    /\ UNCHANGED <<notified, error>>
               ELSE /\ notified' = Append(notified, <<stages[idx], idx, Len(stages)>>)
                    /\ IF on_progress = "raises"
                       THEN /\ pc' = "raised"
                            /\ error' = [type |-> "ObserverError", stage |-> UNNAMED]
                       ELSE /\ pc' = "skip_check"
                            /\ UNCHANGED error
    /\ UNCHANGED <<stages, on_progress, dry_run, start_from, stop_after,
                   completed_stages, entry_completed, calls>>
    /\ UNCHANGED <<svars, rvars>>

SkipCheckIgnored ==
    /\ pc = "skip_check"
    /\ \E skip \in ShouldSkipResults :
          calls' = Append(calls, Call("should_skip", idx, IF skip THEN "true" ELSE "false"))
    /\ pc' = "validate"
    /\ UNCHANGED <<stages, on_progress, dry_run, start_from, stop_after, idx,
                   current_stage, completed_stages, entry_completed, notified, error>>
    /\ UNCHANGED <<svars, rvars>>

\* if stage.should_skip(context): ... continue
SkipCheck ==
    /\ pc = "skip_check"
    /\ \E skip \in ShouldSkipResults :
          /\ calls' = Append(calls, Call("should_skip", idx, IF skip THEN "true" ELSE "false"))
          /\ IF skip THEN Continue ELSE pc' = "validate" /\ idx' = idx
    /\ UNCHANGED <<stages, on_progress, dry_run, start_from, stop_after,
                   current_stage, completed_stages, entry_completed, notified, error>>
    /\ UNCHANGED <<svars, rvars>>

ValidateInputsNoRaise ==
    /\ pc = "validate"
    /\ \E valid \in ValidateInputResults :
          /\ calls' = Append(calls, Call("validate_input", idx, IF valid THEN "true" ELSE "false"))
          /\ IF valid THEN pc' = "dry_check" /\ idx' = idx ELSE Continue
    /\ UNCHANGED <<stages, on_progress, dry_run, start_from, stop_after, error,
                   current_stage, completed_stages, entry_completed, notified>>
    /\ UNCHANGED <<svars, rvars>>

ValidateInputsRaisesInDryRun ==
    /\ pc = "validate"
    /\ \E valid \in ValidateInputResults :
          /\ calls' = Append(calls, Call("validate_input", idx, IF valid THEN "true" ELSE "false"))
          /\ IF valid
             THEN pc' = "dry_check" /\ idx' = idx /\ UNCHANGED error
             ELSE /\ pc' = "raised"
                  /\ idx' = idx
                  /\ error' = [type |-> "ValueError", stage |-> stages[idx]]
    /\ UNCHANGED <<stages, on_progress, dry_run, start_from, stop_after,
                   current_stage, completed_stages, entry_completed, notified>>
    /\ UNCHANGED <<svars, rvars>>

\* if not stage.validate_input(context): raise ValueError unless dry_run
ValidateInputs ==
    /\ pc = "validate"
    /\ \E valid \in ValidateInputResults :
          /\ calls' = Append(calls, Call("validate_input", idx, IF valid THEN "true" ELSE "false"))
          /\ IF valid
             THEN pc' = "dry_check" /\ idx' = idx /\ UNCHANGED error
             ELSE IF ~dry_run
                  THEN /\ pc' = "raised"
                       /\ idx' = idx
                       /\ error' = [type |-> "ValueError", stage |-> stages[idx]]
                  ELSE Continue /\ UNCHANGED error
    /\ UNCHANGED <<stages, on_progress, dry_run, start_from, stop_after,
                   current_stage, completed_stages, entry_completed, notified>>
    /\ UNCHANGED <<svars, rvars>>

DryRunModeIgnored ==
    /\ pc = "dry_check"
    /\ pc' = "execute"
    /\ UNCHANGED <<stages, on_progress, dry_run, start_from, stop_after, idx,
                   current_stage, completed_stages, entry_completed, calls,
                   notified, error>>
    /\ UNCHANGED <<svars, rvars>>

\* if dry_run: ... continue
DryRunMode ==
    /\ pc = "dry_check"
    /\ IF dry_run THEN Continue ELSE pc' = "execute" /\ idx' = idx
    /\ UNCHANGED <<stages, on_progress, dry_run, start_from, stop_after,
                   current_stage, completed_stages, entry_completed, calls,
                   notified, error>>
    /\ UNCHANGED <<svars, rvars>>

ExecuteStageForgetsAppend ==
    /\ pc = "execute"
    /\ ~(concrete /\ stages[idx] = "review")
    /\ \E res \in RunResults :
        LET out == res.out IN
          /\ calls' = Append(calls, Call("run", idx, out))
          /\ context' = res.context
          /\ disk' = res.disk
          /\ UNCHANGED completed_stages
          /\ CASE out = "ok" ->
                    /\ pc' = "stop_check"
                    /\ UNCHANGED error
               [] out = "Exception" ->
                    /\ pc' = "on_error"
                    /\ UNCHANGED error
               [] out = "KeyboardInterrupt" ->
                    /\ pc' = "raised"
                    /\ error' = [type |-> "KeyboardInterrupt", stage |-> UNNAMED]
    /\ UNCHANGED <<stages, on_progress, dry_run, start_from, stop_after, idx,
                   current_stage, entry_completed, notified>>
    /\ UNCHANGED <<concrete, flags, rvars>>

ExecuteStagePassesOverCompleted ==
    /\ pc = "execute"
    /\ ~(concrete /\ stages[idx] = "review")
    /\ IF stages[idx] \in Range(completed_stages)
       THEN /\ pc' = "stop_check"
            /\ UNCHANGED <<calls, context, disk, completed_stages, error>>
       ELSE \E res \in RunResults :
              LET out == res.out IN
                /\ calls' = Append(calls, Call("run", idx, out))
                /\ context' = res.context
                /\ disk' = res.disk
                /\ CASE out = "ok" ->
                          /\ completed_stages' = Append(completed_stages, stages[idx])
                          /\ pc' = "stop_check"
                          /\ UNCHANGED error
                     [] out = "Exception" ->
                          /\ pc' = "on_error"
                          /\ UNCHANGED <<completed_stages, error>>
                     [] out = "KeyboardInterrupt" ->
                          /\ pc' = "raised"
                          /\ error' = [type |-> "KeyboardInterrupt", stage |-> UNNAMED]
                          /\ UNCHANGED completed_stages
    /\ UNCHANGED <<stages, on_progress, dry_run, start_from, stop_after, idx,
                   current_stage, entry_completed, notified>>
    /\ UNCHANGED <<concrete, flags, rvars>>

\* try: context = stage.run(context); completed_stages.append(stage.name)
\* except Exception as e: ...
ExecuteStage ==
    /\ pc = "execute"
    /\ ~(concrete /\ stages[idx] = "review")
    /\ \E res \in RunResults :
        LET out == res.out IN
          /\ calls' = Append(calls, Call("run", idx, out))
          /\ context' = res.context
          /\ disk' = res.disk
          /\ CASE out = "ok" ->
                    /\ completed_stages' = Append(completed_stages, stages[idx])
                    /\ pc' = "stop_check"
                    /\ UNCHANGED error
               [] out = "Exception" ->
                    /\ pc' = "on_error"
                    /\ UNCHANGED <<completed_stages, error>>
               [] out = "KeyboardInterrupt" ->
                    /\ pc' = "raised"
                    /\ error' = [type |-> "KeyboardInterrupt", stage |-> UNNAMED]
                    /\ UNCHANGED completed_stages
    /\ UNCHANGED <<stages, on_progress, dry_run, start_from, stop_after, idx,
                   current_stage, entry_completed, notified>>
    /\ UNCHANGED <<concrete, flags, rvars>>

HandleErrorSwallows ==
    /\ pc = "on_error"
    /\ \E ret \in OnErrorResults :
          /\ calls' = Append(calls, Call("on_error", idx, ret))
          /\ IF ret = "context"
             THEN pc' = "stop_check" /\ UNCHANGED error
             ELSE /\ pc' = "raised"
                  /\ error' = [type |-> "Exception", stage |-> UNNAMED]
    /\ UNCHANGED <<stages, on_progress, dry_run, start_from, stop_after, idx,
                   current_stage, completed_stages, entry_completed, notified>>
    /\ UNCHANGED <<svars, rvars>>

HandleErrorWrapsStageError ==
    /\ pc = "on_error"
    /\ \E ret \in OnErrorResults :
          calls' = Append(calls, Call("on_error", idx, ret))
    /\ pc' = "raised"
    /\ error' = [type |-> "StageError", stage |-> stages[idx]]
    /\ UNCHANGED <<stages, on_progress, dry_run, start_from, stop_after, idx,
                   current_stage, completed_stages, entry_completed, notified>>
    /\ UNCHANGED <<svars, rvars>>

\* context = stage.on_error(context, e); raise
HandleError ==
    /\ pc = "on_error"
    /\ \E ret \in OnErrorResults :
          calls' = Append(calls, Call("on_error", idx, ret))
    /\ pc' = "raised"
    /\ error' = [type |-> "Exception", stage |-> UNNAMED]
    /\ UNCHANGED <<stages, on_progress, dry_run, start_from, stop_after, idx,
                   current_stage, completed_stages, entry_completed, notified>>
    /\ UNCHANGED <<svars, rvars>>

StopAfterCheckIgnored ==
    /\ pc = "stop_check"
    /\ Continue
    /\ UNCHANGED <<stages, on_progress, dry_run, start_from, stop_after,
                   current_stage, completed_stages, entry_completed, calls,
                   notified, error>>
    /\ UNCHANGED <<svars, rvars>>

\* if stop_after and stage.name == stop_after: break
StopAfterCheck ==
    /\ pc = "stop_check"
    /\ IF stop_after # NONE /\ stages[idx] = stop_after
       THEN pc' = "returned" /\ idx' = idx
       ELSE Continue
    /\ UNCHANGED <<stages, on_progress, dry_run, start_from, stop_after,
                   current_stage, completed_stages, entry_completed, calls,
                   notified, error>>
    /\ UNCHANGED <<svars, rvars>>

PipelineNext ==
    \/ Run
    \/ NextStage
    \/ SkipCheck
    \/ ValidateInputs
    \/ DryRunMode
    \/ ExecuteStage
    \/ HandleError
    \/ StopAfterCheck

\* ------------------------------------------------------------------------
\* Pipeline.run_stage
\* ------------------------------------------------------------------------

\* for stage in self.stages: if stage.name == stage_name: ...; 0 when the loop
\* ends without a match
RECURSIVE FindStage(_, _, _)
FindStage(stgs, name, i) ==
    IF i > Len(stgs) THEN 0
    ELSE IF stgs[i] = name THEN i
    ELSE FindStage(stgs, name, i + 1)

RunStageRecordsCompletion ==
    /\ pc = "idle"
    /\ \E name \in StageNames, ctx \in EntryContexts :
          LET i == FindStage(stages, name, 1) IN
            /\ entry_completed' = ctx.completed_stages
            /\ context' = ctx.data
            /\ IF i = 0
               THEN /\ pc' = "stage_raised"
                    /\ error' = [type |-> "ValueError", stage |-> name]
                    /\ completed_stages' = ctx.completed_stages
                    /\ UNCHANGED <<calls, current_stage>>
               ELSE \E out \in RunOutcomes :
                      /\ calls' = Append(calls, Call("run", i, out))
                      /\ current_stage' = name
                      /\ IF out = "ok"
                         THEN /\ pc' = "stage_returned"
                              /\ completed_stages' = Append(ctx.completed_stages, name)
                              /\ UNCHANGED error
                         ELSE /\ pc' = "stage_raised"
                              /\ completed_stages' = ctx.completed_stages
                              /\ error' = [type |-> out, stage |-> UNNAMED]
    /\ UNCHANGED <<stages, on_progress, dry_run, start_from, stop_after, idx, notified>>
    /\ UNCHANGED <<concrete, flags, disk, rvars>>

\* def run_stage(self, stage_name, context): return stage.run(context) of the
\* first stage of that name, or raise ValueError("Stage not found: ...").
\* Nothing is caught: what the run raises is what run_stage raises.
RunStage ==
    /\ pc = "idle"
    /\ \E name \in StageNames, ctx \in EntryContexts :
          LET i == FindStage(stages, name, 1) IN
            /\ completed_stages' = ctx.completed_stages
            /\ entry_completed' = ctx.completed_stages
            /\ context' = ctx.data
            /\ IF i = 0
               THEN /\ pc' = "stage_raised"
                    /\ error' = [type |-> "ValueError", stage |-> name]
                    /\ UNCHANGED calls
               ELSE \E out \in RunOutcomes :
                      /\ calls' = Append(calls, Call("run", i, out))
                      /\ IF out = "ok"
                         THEN pc' = "stage_returned" /\ UNCHANGED error
                         ELSE /\ pc' = "stage_raised"
                              /\ error' = [type |-> out, stage |-> UNNAMED]
    /\ UNCHANGED <<stages, on_progress, dry_run, start_from, stop_after, idx,
                   current_stage, notified>>
    /\ UNCHANGED <<concrete, flags, disk, rvars>>

\* the pipeline object while only the reviewer is exercised
PipelineIdle ==
    /\ stages = <<>>
    /\ on_progress = "none"
    /\ dry_run = FALSE
    /\ start_from = NONE
    /\ stop_after = NONE
    /\ idx = 1
    /\ pc = "idle"
    /\ current_stage = ""
    /\ completed_stages = <<>>
    /\ entry_completed = <<>>
    /\ calls = <<>>
    /\ notified = <<>>
    /\ error = NOERROR
    /\ concrete = FALSE
    /\ flags = [skip_research |-> FALSE, skip_review |-> FALSE]
    /\ context = EmptyData
    /\ disk = EmptyDisk

\* ------------------------------------------------------------------------
\* ConfigReviewer: data
\* ------------------------------------------------------------------------
MaxItems == 1    \* findings in one answer of a model
MaxCalls == 2    \* review calls on one ConfigReviewer
MaxPool == 3     \* findings one ConfigReviewer accumulates

PrefixLen == 50

MinConfidence == 80

Sources == {"OpenAI", "Gemini"}

\* the `source` that _review_with_openai / _review_with_gemini put on a finding
SourceLabel(s) == IF s = "OpenAI" THEN "OpenAI GPT-5.2" ELSE "Google Gemini 3"

\* JSON values of the "message" field: a string (a sequence of characters) or null
Str(chars) == [type |-> "string", value |-> chars]

Null == [type |-> "null", value |-> <<>>]

LongA == [k \in 1..50 |-> "a"] \o <<"x">>

\* LongA in another case and with another tail behind the 50th character
LongB == <<"A">> \o [k \in 1..49 |-> "a"] \o <<"y">>

\* differs from LongA in the 50th character
LongC == [k \in 1..49 |-> "a"] \o <<"b", "x">>

\* The findings a model may answer with. A JSON object is a function from
\* the keys it has to their values, so an absent key is absent from the
\* DOMAIN. One catalogue per review subject keeps the state space a sum.
CatDuplicates == {
    [severity |-> "critical", category |-> "security", message |-> Str(LongA), confidence |-> 90],
    [severity |-> "low", category |-> "security", message |-> Str(LongB), confidence |-> 80],
    [severity |-> "critical", category |-> "missing", message |-> Str(LongA), confidence |-> 90],
    [severity |-> "critical", category |-> "security", message |-> Str(LongC), confidence |-> 95] }

CatConfidence == {
    [severity |-> "critical", category |-> "missing", message |-> Str(<<"b">>), confidence |-> 79],
    [severity |-> "critical", message |-> Str(<<"b">>)],
    [severity |-> "high", category |-> "missing", message |-> Str(<<"B">>), confidence |-> 80],
    [category |-> "security", message |-> Null, confidence |-> 80] }

CatSeverities == {
    [severity |-> "critical", category |-> "improvement", message |-> Str(<<"a">>), confidence |-> 80],
    [severity |-> "high", category |-> "improvement", message |-> Str(<<"b">>), confidence |-> 85],
    [confidence |-> 90],
    [severity |-> "low", category |-> "improvement", message |-> Str(<<"a", "b">>), confidence |-> 95],
    [severity |-> "CRITICAL", category |-> "improvement", message |-> Str(<<"b", "a">>), confidence |-> 100] }

Catalogues == {CatDuplicates, CatConfidence, CatSeverities}

\* what a model call can do: raise (network, quota, no JSON at all), answer
\* with a JSON document {"issues": [...]}, or never come back (the clients
\* are created and called without a timeout)
Responses(items) ==
    {[kind |-> "raises", items |-> <<>>], [kind |-> "hangs", items |-> <<>>]}
        \cup {[kind |-> "data", items |-> its] : its \in SeqsUpTo(items, MaxItems)}

NoResponse == [kind |-> "none", items |-> <<>>]

\* str.lower(), on the characters the messages use
LowerChar(c) ==
    CASE c = "A" -> "a"
      [] c = "B" -> "b"
      [] c = "X" -> "x"
      [] c = "Y" -> "y"
      [] OTHER -> c

Lower(chars) == [k \in 1..Len(chars) |-> LowerChar(chars[k])]

\* chars[:n]
Prefix(chars, n) == SubSeq(chars, 1, IF Len(chars) < n THEN Len(chars) ELSE n)

\* ------------------------------------------------------------------------
\* ConfigReviewer: _parse_issues, _deduplicate_issues
\* ------------------------------------------------------------------------

\* ReviewIssue(...) of _parse_issues (suggestion and file are carried along
\* and read by nothing; they are left out)
MakeIssue(item, source) ==
    [severity |-> Get(item, "severity", "medium"),
     category |-> Get(item, "category", "improvement"),
     message |-> Get(item, "message", Str(<<>>)),
     source |-> source,
     confidence |-> Get(item, "confidence", 80)]

KeepsItemDefault80(item) == Get(item, "confidence", 80) >= MinConfidence

\* if item.get("confidence", 0) >= 80
KeepsItem(item) == Get(item, "confidence", 0) >= MinConfidence

RECURSIVE ParseIssues(_, _)
ParseIssues(items, source) ==
    IF items = <<>> THEN <<>>
    ELSE LET rest == ParseIssues(Tail(items), source)
         IN  IF KeepsItem(Head(items))
             THEN <<MakeIssue(Head(items), source)>> \o rest
             ELSE rest

DedupeKeyCaseSensitive(issue) ==
    <<issue.category, Prefix(issue.message.value, PrefixLen)>>

\* key = (issue.category, issue.message[:50].lower())
DedupeKey(issue) ==
    <<issue.category, Lower(Prefix(issue.message.value, PrefixLen))>>

\* issue.message[:50] of a message that is no string raises TypeError
DedupeRaises(pool) ==
    \E k \in 1..Len(pool) : pool[k].message.type # "string"

RECURSIVE UniqueFromKeepsLast(_, _)
UniqueFromKeepsLast(pool, seen) ==
    IF pool = <<>> THEN <<>>
    ELSE LET key == DedupeKey(Head(pool))
             later == {DedupeKey(Tail(pool)[k]) : k \in 1..(Len(pool) - 1)}
         IN  IF key \in later
             THEN UniqueFromKeepsLast(Tail(pool), seen)
             ELSE <<Head(pool)>> \o UniqueFromKeepsLast(Tail(pool), seen)

\* for issue in self.issues: if key not in seen: seen.add(key); unique.append(issue)
RECURSIVE UniqueFrom(_, _)
UniqueFrom(pool, seen) ==
    IF pool = <<>> THEN <<>>
    ELSE LET key == DedupeKey(Head(pool))
         IN  IF key \in seen
             THEN UniqueFrom(Tail(pool), seen)
             ELSE <<Head(pool)>> \o UniqueFrom(Tail(pool), seen \cup {key})

\* severity_order.get(i.severity, 4)
SeverityOrder(severity) ==
    CASE severity = "critical" -> 0
      [] severity = "high" -> 1
      [] severity = "medium" -> 2
      [] severity = "low" -> 3
      [] OTHER -> 4

SortsBeforeConfidenceAscending(a, b) ==
    \/ SeverityOrder(a.severity) < SeverityOrder(b.severity)
    \/ /\ SeverityOrder(a.severity) = SeverityOrder(b.severity)
       /\ a.confidence < b.confidence

\* (severity_order.get(a.severity, 4), -a.confidence) < (the same of b)
SortsBefore(a, b) ==
    \/ SeverityOrder(a.severity) < SeverityOrder(b.severity)
    \/ /\ SeverityOrder(a.severity) = SeverityOrder(b.severity)
       /\ -a.confidence < -b.confidence

\* list.sort is stable: an element goes behind the elements it does not sort before
RECURSIVE InsertSorted(_, _)
InsertSorted(sorted, x) ==
    IF sorted = <<>> THEN <<x>>
    ELSE IF SortsBefore(x, Head(sorted))
         THEN <<x>> \o sorted
         ELSE <<Head(sorted)>> \o InsertSorted(Tail(sorted), x)

RECURSIVE SortIssues(_)
SortIssues(seq) ==
    IF seq = <<>> THEN <<>>
    ELSE InsertSorted(SortIssues(SubSeq(seq, 1, Len(seq) - 1)), seq[Len(seq)])

\* _deduplicate_issues, when it does not raise
DeduplicateIssues(pool) == SortIssues(UniqueFrom(pool, {}))

\* ------------------------------------------------------------------------
\* ConfigReviewer.review
\* ------------------------------------------------------------------------
HasKey(s) == IF s = "OpenAI" THEN openai_key ELSE gemini_key

\* the length of a list of lists, flattened
RECURSIVE TotalLen(_, _)
TotalLen(f, S) ==
    IF S = {} THEN 0
    ELSE LET s == CHOOSE x \in S : TRUE
         IN  Len(f[s]) + TotalLen(f, S \ {s})

\* ConfigReviewer(): the keys come from the environment, the pool is empty
ReviewerInit ==
    /\ openai_key \in BOOLEAN
    /\ gemini_key \in BOOLEAN
    /\ issues = <<>>
    /\ rpc = "idle"
    /\ futures = [s \in Sources |-> "unsubmitted"]
    /\ responded = [s \in Sources |-> NoResponse]
    /\ results = [s \in Sources |-> <<>>]
    /\ collected = <<>>
    /\ returned = <<>>
    /\ entry_pool = <<>>
    /\ ncalls = 0
    /\ catalogue \in Catalogues

\* the reviewer while only the pipeline is exercised
ReviewerIdle ==
    /\ openai_key = FALSE
    /\ gemini_key = FALSE
    /\ issues = <<>>
    /\ rpc = "idle"
    /\ futures = [s \in Sources |-> "unsubmitted"]
    /\ responded = [s \in Sources |-> NoResponse]
    /\ results = [s \in Sources |-> <<>>]
    /\ collected = <<>>
    /\ returned = <<>>
    /\ entry_pool = <<>>
    /\ ncalls = 0
    /\ catalogue = {}

ReviewClearsPool ==
    /\ rpc \in {"idle", "returned", "raised"}
    /\ ncalls < MaxCalls
    /\ ncalls' = ncalls + 1
    /\ rpc' = "collecting"
    /\ futures' = [s \in Sources |-> IF HasKey(s) THEN "running" ELSE "unsubmitted"]
    /\ responded' = [s \in Sources |-> NoResponse]
    /\ results' = [s \in Sources |-> <<>>]
    /\ collected' = <<>>
    /\ returned' = <<>>
    /\ issues' = <<>>
    /\ entry_pool' = <<>>
    /\ UNCHANGED <<openai_key, gemini_key, catalogue>>
    /\ UNCHANGED pvars

\* review(config): executor.submit for every model that has a key
Review ==
    /\ rpc \in {"idle", "returned", "raised"}
    /\ ncalls < MaxCalls
    /\ ncalls' = ncalls + 1
    /\ rpc' = "collecting"
    /\ futures' = [s \in Sources |-> IF HasKey(s) THEN "running" ELSE "unsubmitted"]
    /\ responded' = [s \in Sources |-> NoResponse]
    /\ results' = [s \in Sources |-> <<>>]
    /\ collected' = <<>>
    /\ returned' = <<>>
    /\ entry_pool' = issues
    /\ UNCHANGED <<openai_key, gemini_key, issues, catalogue>>
    /\ UNCHANGED pvars

\* try: ... return self._parse_issues(data, source)  except Exception: return []
WorkerResult(resp, s) ==
    IF resp.kind = "data" THEN ParseIssues(resp.items, SourceLabel(s)) ELSE <<>>

ReviewWithAppendsToPool(s) ==
    /\ rpc = "collecting"
    /\ futures[s] = "running"
    /\ \E resp \in Responses(catalogue) :
          /\ Len(issues) + TotalLen(results, Sources \ {s})
                + Len(WorkerResult(resp, s)) <= MaxPool
          /\ responded' = [responded EXCEPT ![s] = resp]
          /\ results' = [results EXCEPT ![s] = WorkerResult(resp, s)]
          /\ issues' = issues \o WorkerResult(resp, s)
          /\ futures' = [futures EXCEPT ![s] = IF resp.kind = "hangs" THEN "hung" ELSE "done"]
    /\ UNCHANGED <<openai_key, gemini_key, rpc, collected, returned,
                   entry_pool, ncalls, catalogue>>
    /\ UNCHANGED pvars

\* _review_with_openai / _review_with_gemini on a worker thread of the pool
ReviewWith(s) ==
    /\ rpc = "collecting"
    /\ futures[s] = "running"
    /\ \E resp \in Responses(catalogue) :
          /\ Len(issues) + TotalLen(results, Sources \ {s})
                + Len(WorkerResult(resp, s)) <= MaxPool
          /\ responded' = [responded EXCEPT ![s] = resp]
          /\ results' = [results EXCEPT ![s] = WorkerResult(resp, s)]
          /\ futures' = [futures EXCEPT ![s] = IF resp.kind = "hangs" THEN "hung" ELSE "done"]
    /\ UNCHANGED <<openai_key, gemini_key, issues, rpc, collected, returned,
                   entry_pool, ncalls, catalogue>>
    /\ UNCHANGED pvars

\* for future in as_completed(futures): issues = future.result();
\* self.issues.extend(issues). The workers catch every Exception themselves,
\* so no future holds one.
Collect(s) ==
    /\ rpc = "collecting"
    /\ futures[s] = "done"
    /\ \A k \in 1..Len(collected) : collected[k] # s
    /\ issues' = issues \o results[s]
    /\ collected' = Append(collected, s)
    /\ UNCHANGED <<openai_key, gemini_key, rpc, futures, responded, results,
                   returned, entry_pool, ncalls, catalogue>>
    /\ UNCHANGED pvars

DeduplicateWithoutJoin ==
    /\ rpc = "collecting"
    /\ \A s \in Sources : futures[s] = "done" => \E k \in 1..Len(collected) : collected[k] = s
    /\ IF DedupeRaises(issues)
       THEN rpc' = "raised" /\ returned' = <<>>
       ELSE rpc' = "returned" /\ returned' = DeduplicateIssues(issues)
    /\ UNCHANGED <<openai_key, gemini_key, issues, futures, responded, results,
                   collected, entry_pool, ncalls, catalogue>>
    /\ UNCHANGED pvars

\* as_completed(futures) is exhausted and the `with` block is left (both
\* wait, without a timeout, for every submitted worker), then
\* unique_issues = self._deduplicate_issues() and the return
Deduplicate ==
    /\ rpc = "collecting"
    /\ \A s \in Sources : futures[s] \in {"unsubmitted", "done"}
    /\ \A s \in Sources : futures[s] = "done" => \E k \in 1..Len(collected) : collected[k] = s
    /\ IF DedupeRaises(issues)
       THEN rpc' = "raised" /\ returned' = <<>>
       ELSE rpc' = "returned" /\ returned' = DeduplicateIssues(issues)
    /\ UNCHANGED <<openai_key, gemini_key, issues, futures, responded, results,
                   collected, entry_pool, ncalls, catalogue>>
    /\ UNCHANGED pvars

ReviewNext ==
    \/ Review
    \/ \E s \in Sources : ReviewWith(s)
    \/ \E s \in Sources : Collect(s)
    \/ Deduplicate

\* ------------------------------------------------------------------------
\* ReviewStage.run
\* ------------------------------------------------------------------------
MaxConfidence == 100

\* the reviews a configuration generated by the pipeline can get
StageCatalogues == {CatConfidence, CatSeverities}

\* str.lower(), on the severity and category names the models use
LowerName(name) == IF name = "CRITICAL" THEN "critical" ELSE name

\* mapping.get(s.lower(), Severity.MEDIUM)
ConvertSeverity(severity) ==
    IF LowerName(severity) \in {"critical", "high", "medium", "low"}
    THEN LowerName(severity) ELSE "medium"

\* mapping.get(c.lower(), Category.IMPROVEMENT)
ConvertCategory(category) ==
    IF LowerName(category) \in {"security", "best_practice", "missing", "improvement"}
    THEN LowerName(category) ELSE "improvement"

\* ModelReviewIssue(...): message: str, confidence: int = Field(ge=0, le=100)
ConvertRaises(found) ==
    \E k \in 1..Len(found) :
        \/ found[k].message.type # "string"
        \/ found[k].confidence < 0
        \/ found[k].confidence > MaxConfidence

ConvertIssues(found) ==
    [k \in 1..Len(found) |->
        [severity |-> ConvertSeverity(found[k].severity),
         category |-> ConvertCategory(found[k].category),
         message |-> found[k].message,
         source |-> found[k].source,
         confidence |-> found[k].confidence]]

\* reviewer = ConfigReviewer(); results = reviewer.review(config): the keys
\* are read from the environment and the workers are submitted
ReviewStageRun ==
    /\ pc = "execute"
    /\ concrete
    /\ stages[idx] = "review"
    /\ pc' = "review_stage"
    /\ \E ok \in BOOLEAN, gk \in BOOLEAN :
          /\ openai_key' = ok
          /\ gemini_key' = gk
          /\ futures' = [s \in Sources |->
                IF (IF s = "OpenAI" THEN ok ELSE gk) THEN "running" ELSE "unsubmitted"]
    /\ catalogue' \in StageCatalogues
    /\ issues' = <<>>
    /\ entry_pool' = <<>>
    /\ ncalls' = 1
    /\ rpc' = "collecting"
    /\ responded' = [s \in Sources |-> NoResponse]
    /\ results' = [s \in Sources |-> <<>>]
    /\ collected' = <<>>
    /\ returned' = <<>>
    /\ UNCHANGED <<stages, on_progress, dry_run, start_from, stop_after, idx,
                   current_stage, completed_stages, entry_completed, calls,
                   notified, error, svars>>

\* the rest of ReviewStage.run, back in Pipeline.run: review has returned or
\* raised; the issues are converted and stored. The reviewer was a local of
\* run and is gone.
ReviewStageReturn ==
    /\ pc = "review_stage"
    /\ rpc \in {"returned", "raised"}
    /\ IF rpc = "raised" \/ ConvertRaises(returned)
       THEN /\ calls' = Append(calls, Call("run", idx, "Exception"))
            /\ pc' = "on_error"
            /\ UNCHANGED <<context, completed_stages>>
       ELSE /\ calls' = Append(calls, Call("run", idx, "ok"))
            /\ context' = [context EXCEPT !.review_issues = ConvertIssues(returned)]
            /\ completed_stages' = Append(completed_stages, stages[idx])
            /\ pc' = "stop_check"
    /\ openai_key' = FALSE
    /\ gemini_key' = FALSE
    /\ issues' = <<>>
    /\ rpc' = "idle"
    /\ futures' = [s \in Sources |-> "unsubmitted"]
    /\ responded' = [s \in Sources |-> NoResponse]
    /\ results' = [s \in Sources |-> <<>>]
    /\ collected' = <<>>
    /\ returned' = <<>>
    /\ entry_pool' = <<>>
    /\ ncalls' = 0
    /\ catalogue' = {}
    /\ UNCHANGED <<stages, on_progress, dry_run, start_from, stop_after, idx,
                   current_stage, entry_completed, notified, error,
                   concrete, flags, disk>>

\* ------------------------------------------------------------------------
\* Specifications
\* ------------------------------------------------------------------------
Init == PipelineInit /\ ReviewerIdle

Next == PipelineNext

Spec == Init /\ [][Next]_vars

ReviewInit == PipelineIdle /\ ReviewerInit

ReviewSpec == ReviewInit /\ [][ReviewNext]_vars

\* the pipeline that the generate command builds
StagesInit ==
    /\ stages = CliStages
    /\ on_progress = "none"
    /\ dry_run = FALSE
    /\ start_from = NONE
    /\ stop_after = NONE
    /\ idx = 1
    /\ pc = "idle"
    /\ current_stage = ""
    /\ completed_stages = <<>>
    /\ entry_completed = <<>>
    /\ calls = <<>>
    /\ notified = <<>>
    /\ error = NOERROR
    /\ concrete = TRUE
    /\ flags \in CliFlags
    /\ context = EmptyData
    /\ disk = EmptyDisk
    /\ ReviewerIdle

StagesNext ==
    \/ PipelineNext
    \/ ReviewStageRun
    \/ \E s \in Sources : ReviewWith(s)
    \/ \E s \in Sources : Collect(s)
    \/ Deduplicate
    \/ ReviewStageReturn

StagesSpec == StagesInit /\ [][StagesNext]_vars

\* a single stage run by name on a pipeline
RunStageNext == RunStage

RunStageSpec == Init /\ [][RunStageNext]_vars

\* ------------------------------------------------------------------------
\* Properties of Pipeline.run
\* ------------------------------------------------------------------------
ShouldSkipCalls == SelectSeq(calls, LAMBDA c : c.op = "should_skip")

RunOkCalls == SelectSeq(calls, LAMBDA c : c.op = "run" /\ c.out = "ok")

\* the names Pipeline.run appended: those of the stages whose run returned
AppendedNames == [k \in 1..Len(RunOkCalls) |-> stages[RunOkCalls[k].idx]]

\* the position of a stage name in the list (of its first occurrence)
PositionOf(name) ==
    CHOOSE i \in 1..Len(stages) :
        stages[i] = name /\ \A j \in 1..(i - 1) : stages[j] # name

\* the index the run starts at, as the specification states it
FirstStage == IF start_from \in Range(stages) THEN PositionOf(start_from) ELSE 1

\* C1: with start_from = S, S in the list, the run evaluates the stages from
\* S's position on, one after the other in list order, up to the end of the
\* list (or up to the stage it stops after or fails at), and no should_skip,
\* validate_input, run or on_error of a stage before S is ever called.
C1_ResumeRunsSuffix ==
    (pc # "idle" /\ start_from \in Range(stages)) =>
        LET p == PositionOf(start_from)
            last == p + Len(ShouldSkipCalls) - 1
        IN  /\ \A k \in 1..Len(calls) : calls[k].idx >= p
            /\ \A k \in 1..Len(notified) : notified[k][2] >= p
            /\ \A k \in 1..Len(ShouldSkipCalls) : ShouldSkipCalls[k].idx = p + k - 1
            /\ \A k, l \in 1..Len(calls) : k < l => calls[k].idx <= calls[l].idx
            /\ pc = "returned" =>
                  \/ last = Len(stages)
                  \/ /\ last >= p
                     /\ stages[last] = stop_after
                     /\ calls[Len(calls)] = Call("run", last, "ok")

C1_Witness ==
    /\ pc = "returned"
    /\ Len(stages) = 3
    /\ start_from = stages[2]
    /\ stages[1] # stages[2]
    /\ completed_stages = entry_completed \o <<stages[2], stages[3]>>

\* C2: in a non-dry run, a reached stage whose validate_input returns false
\* makes Pipeline.run raise a ValueError naming that stage; the stage's run is
\* not called and nothing of a later stage is called or notified.
C2_InvalidInputIsFatal ==
    \A k \in 1..Len(calls) :
        (calls[k].op = "validate_input" /\ calls[k].out = "false" /\ ~dry_run) =>
            /\ k = Len(calls)
            /\ pc = "raised"
            /\ error = [type |-> "ValueError", stage |-> stages[calls[k].idx]]
            /\ \A n \in 1..Len(notified) : notified[n][2] <= calls[k].idx

C2_Witness ==
    /\ pc = "raised"
    /\ error.type = "ValueError"
    /\ ~dry_run
    /\ idx = 2
    /\ Len(stages) = 3
    /\ calls[Len(calls)] = Call("validate_input", 2, "false")
    /\ completed_stages = entry_completed \o <<stages[1]>>

\* C3: a dry run never calls the run of any stage, and completed_stages stays
\* what it was at entry, whatever start_from and stop_after are.
C3_DryRunRunsNothing ==
    (pc # "idle" /\ dry_run) =>
        /\ \A k \in 1..Len(calls) : calls[k].op # "run"
        /\ completed_stages = entry_completed

C3_Witness ==
    /\ pc = "returned"
    /\ dry_run
    /\ entry_completed # <<>>
    /\ Len(stages) = 3
    /\ \E k \in 1..Len(calls) : calls[k] = Call("validate_input", 3, "true")
    /\ \E k \in 1..Len(calls) : calls[k] = Call("validate_input", 2, "false")

\* C4: a stage whose should_skip returns true gets no validate_input and no
\* run call, its name is not appended to completed_stages, and the run goes
\* on with the next stage; validate_input is only called right after a
\* should_skip of the same stage that returned false.
C4_SkippedStageIsPassedOver ==
    /\ completed_stages = entry_completed \o AppendedNames
    /\ \A k \in 1..Len(calls) :
          /\ (calls[k].op = "should_skip" /\ calls[k].out = "true") =>
                LET i == calls[k].idx
                IN  /\ \A l \in 1..Len(calls) :
                          calls[l].idx = i => calls[l].op = "should_skip"
                    /\ \A l \in 1..Len(RunOkCalls) : RunOkCalls[l].idx # i
                    /\ IF k < Len(calls)
                       THEN calls[k + 1].op = "should_skip" /\ calls[k + 1].idx = i + 1
                       ELSE \/ pc = "for" /\ idx = i + 1
                            \/ pc = "skip_check" /\ idx = i + 1
                            \/ pc = "returned" /\ i = Len(stages)
                            \/ pc = "raised" /\ error.type = "ObserverError" /\ idx = i + 1
          /\ calls[k].op = "validate_input" =>
                /\ k > 1
                /\ calls[k - 1] = Call("should_skip", calls[k].idx, "false")

C4_Witness ==
    /\ pc = "returned"
    /\ ~dry_run
    /\ Len(stages) = 3
    /\ calls[1] = Call("should_skip", 1, "true")
    /\ stop_after = stages[1]
    /\ completed_stages = entry_completed \o <<stages[2], stages[3]>>

\* C5 as stated: whenever a stage's run raises, on_error of that stage is
\* called exactly once before the failure propagates.
C5_OnErrorOnEveryRaise ==
    \A k \in 1..Len(calls) :
        (calls[k].op = "run" /\ calls[k].out # "ok" /\ pc = "raised") =>
            Cardinality({l \in 1..Len(calls) :
                calls[l].op = "on_error" /\ calls[l].idx = calls[k].idx}) = 1

\* C5 (amended): when a stage's run raises an Exception, on_error of that
\* stage is called exactly once and the same failure then propagates whatever
\* on_error returns; when it raises a BaseException that is no Exception
\* (KeyboardInterrupt), on_error is not called and the failure propagates at
\* once. Either way the stage is not retried, its name is not appended and
\* nothing of a later stage is called.
C5_FailurePropagates ==
    \A k \in 1..Len(calls) :
        (calls[k].op = "run" /\ calls[k].out # "ok") =>
            LET i == calls[k].idx
            IN  /\ pc \in {"on_error", "raised"}
                /\ idx = i
                /\ Cardinality({l \in 1..Len(calls) :
                       calls[l].op = "run" /\ calls[l].idx = i}) = 1
                /\ completed_stages = entry_completed \o AppendedNames
                /\ \A l \in 1..Len(RunOkCalls) : RunOkCalls[l].idx < i
                /\ \A n \in 1..Len(notified) : notified[n][2] <= i
                /\ IF calls[k].out = "Exception"
                   THEN \/ pc = "on_error" /\ k = Len(calls)
                        \/ /\ pc = "raised"
                           /\ k + 1 = Len(calls)
                           /\ calls[k + 1].op = "on_error"
                           /\ calls[k + 1].idx = i
                           /\ error = [type |-> "Exception", stage |-> UNNAMED]
                   ELSE /\ pc = "raised"
                        /\ k = Len(calls)
                        /\ error = [type |-> "KeyboardInterrupt", stage |-> UNNAMED]

C5_Witness ==
    /\ pc = "raised"
    /\ error.type = "Exception"
    /\ Len(stages) = 3
    /\ idx = 2
    /\ calls[Len(calls)] = Call("on_error", 2, "context")
    /\ completed_stages = entry_completed \o <<stages[1]>>

\* C6: in a non-dry run, once the stage named by stop_after has run, the run
\* returns and nothing of a later stage is called or notified; when every
\* stage from the start index to that stage was not skipped, valid and
\* succeeded, exactly these stages have run, in order.
C6_StopAfterStops ==
    \A k \in 1..Len(calls) :
        (calls[k] = Call("run", calls[k].idx, "ok") /\ stages[calls[k].idx] = stop_after) =>
            LET i == calls[k].idx
            IN  /\ ~dry_run
                /\ k = Len(calls)
                /\ pc \in {"stop_check", "returned"}
                /\ idx = i
                /\ error = NOERROR
                /\ \A n \in 1..Len(notified) : notified[n][2] <= i
                /\ (\A j \in FirstStage..i : \E l \in 1..Len(calls) : calls[l] = Call("run", j, "ok"))
                      => completed_stages = entry_completed \o SubSeq(stages, FirstStage, i)

C6_Witness ==
    /\ pc = "returned"
    /\ stages = <<"generation", "validation", "write">>
    /\ stop_after = "validation"
    /\ start_from = NONE
    /\ completed_stages = entry_completed \o <<"generation", "validation">>

\* ------------------------------------------------------------------------
\* Properties of ConfigReviewer.review
\* ------------------------------------------------------------------------

\* the sources of this call whose query raised
FailedSources == {s \in Sources : responded[s].kind = "raises"}

\* the findings of a model's answer that state a confidence of at least 80
RECURSIVE ConfidentItems(_)
ConfidentItems(items) ==
    IF items = <<>> THEN <<>>
    ELSE IF "confidence" \in DOMAIN Head(items) /\ Head(items).confidence >= 80
         THEN <<Head(items)>> \o ConfidentItems(Tail(items))
         ELSE ConfidentItems(Tail(items))

\* the findings of the sources that did not fail, in the order of arrival
RECURSIVE FindingsOf(_)
FindingsOf(order) ==
    IF order = <<>> THEN <<>>
    ELSE IF Head(order) \in FailedSources
         THEN FindingsOf(Tail(order))
         ELSE results[Head(order)] \o FindingsOf(Tail(order))

\* the dedupe key: the category and the first 50 characters, lower-cased
KeyOf(issue) ==
    <<issue.category,
      [k \in 1..(IF Len(issue.message.value) < 50 THEN Len(issue.message.value) ELSE 50)
          |-> LowerChar(issue.message.value[k])]>>

\* the position at which a finding first arrived in the pool
ArrivalOf(issue) ==
    CHOOSE p \in 1..Len(issues) :
        issues[p] = issue /\ \A q \in 1..(p - 1) : issues[q] # issue

\* the rank of a severity: critical, high, medium, low, then anything else
RankOf(severity) ==
    CASE severity = "critical" -> 0
      [] severity = "high" -> 1
      [] severity = "medium" -> 2
      [] severity = "low" -> 3
      [] OTHER -> 4

\* C7 as stated: review never raises because of what a source did, a source
\* whose query raised contributes nothing, and the issues returned are the
\* deduplicated, ranked findings of the sources of this call that did not fail.
C7_FailingSourcesIsolated ==
    /\ rpc # "raised"
    /\ \A s \in FailedSources : futures[s] = "done" => results[s] = <<>>
    /\ rpc = "returned" => returned = DeduplicateIssues(FindingsOf(collected))

\* C8: review returns at most one issue per dedupe key; every key of the
\* pool is returned exactly once, by the first issue of the pool that has it.
C8_FirstSeenPerKey ==
    rpc = "returned" =>
        /\ \A i, j \in 1..Len(returned) :
              i # j => KeyOf(returned[i]) # KeyOf(returned[j])
        /\ \A r \in 1..Len(returned) : \E p \in 1..Len(issues) : returned[r] = issues[p]
        /\ \A p \in 1..Len(issues) :
              LET first == CHOOSE q \in 1..Len(issues) :
                               /\ KeyOf(issues[q]) = KeyOf(issues[p])
                               /\ \A q2 \in 1..(q - 1) : KeyOf(issues[q2]) # KeyOf(issues[p])
              IN  /\ Cardinality({r \in 1..Len(returned) :
                         KeyOf(returned[r]) = KeyOf(issues[p])}) = 1
                  /\ \E r \in 1..Len(returned) : returned[r] = issues[first]

C8_Witness ==
    /\ rpc = "returned"
    /\ Len(issues) = 3
    /\ Len(returned) = 2
    /\ issues[1].message = Str(LongB)
    /\ issues[2].message = Str(LongC)
    /\ issues[3].message = Str(LongA)
    /\ issues[3].category = issues[1].category
    /\ issues[3].source # issues[1].source
    /\ \E r \in 1..2 : returned[r] = issues[1]

\* C9: every issue of the pool and every issue returned has a confidence of
\* at least 80; of a model's answer exactly the findings that state a
\* confidence >= 80 become issues (79 and a missing confidence are dropped,
\* 80 is kept), and each of these is returned unless an issue with its key
\* arrived before it.
C9_ConfidenceThreshold ==
    /\ \A k \in 1..Len(issues) : issues[k].confidence >= 80
    /\ \A k \in 1..Len(returned) : returned[k].confidence >= 80
    /\ \A s \in Sources :
          (futures[s] = "done" /\ responded[s].kind = "data") =>
              LET kept == ConfidentItems(responded[s].items)
              IN  /\ Len(results[s]) = Len(kept)
                  /\ \A k \in 1..Len(kept) :
                        /\ results[s][k].confidence = kept[k].confidence
                        /\ "message" \in DOMAIN kept[k] =>
                              results[s][k].message = kept[k].message
                        /\ results[s][k].source = SourceLabel(s)
    /\ rpc = "returned" =>
          \A p \in 1..Len(issues) :
              \E r \in 1..Len(returned) : KeyOf(returned[r]) = KeyOf(issues[p])

C9_Witness ==
    /\ rpc = "returned"
    /\ catalogue = CatConfidence
    /\ responded["OpenAI"].kind = "data"
    /\ responded["OpenAI"].items =
          <<[severity |-> "critical", category |-> "missing",
             message |-> Str(<<"b">>), confidence |-> 79]>>
    /\ responded["Gemini"].kind = "data"
    /\ responded["Gemini"].items =
          <<[severity |-> "high", category |-> "missing",
             message |-> Str(<<"B">>), confidence |-> 80]>>
    /\ collected = <<"OpenAI", "Gemini">>
    /\ Len(returned) = 1
    /\ returned[1].confidence = 80
    /\ returned[1].source = "Google Gemini 3"

\* C10: the issues returned are ordered by severity rank (critical 0, high
\* 1, medium 2, low 3) ascending, then by confidence descending; issues
\* equal in both keep the order in which they arrived.
C10_RankedStably ==
    rpc = "returned" =>
        \A i, j \in 1..Len(returned) :
            i < j =>
                LET a == returned[i]
                    b == returned[j]
                IN  \/ RankOf(a.severity) < RankOf(b.severity)
                    \/ /\ RankOf(a.severity) = RankOf(b.severity)
                       /\ \/ a.confidence > b.confidence
                          \/ /\ a.confidence = b.confidence
                             /\ ArrivalOf(a) < ArrivalOf(b)

C10_Witness ==
    /\ rpc = "returned"
    /\ catalogue = CatDuplicates
    /\ Len(issues) = 3
    /\ issues[1].category = "missing"
    /\ issues[2].message = Str(LongA)
    /\ issues[2].category = "security"
    /\ issues[3].confidence = 95
    /\ returned = <<issues[3], issues[1], issues[2]>>

\* C11 as stated: review returns even when a source never completes; the
\* fan-in gives up waiting after the global timeout, so a call in progress
\* can always take a further step towards its return.
C11_ReviewReturnsDespiteHang ==
    rpc = "collecting" => ENABLED ReviewNext

\* ------------------------------------------------------------------------
\* Further properties of Pipeline.run
\* ------------------------------------------------------------------------
NotSkippedCalls ==
    SelectSeq(calls, LAMBDA c : c.op = "should_skip" /\ c.out = "false")

\* the run calls that did not return
FailedRunCalls == SelectSeq(calls, LAMBDA c : c.op = "run" /\ c.out # "ok")

\* C13 as stated: the observer never affects control flow; whatever it does,
\* a run only ends in an error that a stage caused (an invalid input or a
\* failing run), and every stage the observer was told about is evaluated.
C13_ObserverIsAdvisory ==
    /\ pc = "raised" => error.type \in {"ValueError", "Exception", "KeyboardInterrupt"}
    /\ pc \notin {"idle", "for", "skip_check"} => Len(ShouldSkipCalls) = Len(notified)
          \/ on_progress = "none"

C16_CompletedIsNotSkipped ==
    (pc = "returned" /\ ~dry_run /\ stop_after = NONE /\ entry_completed = <<>>) =>
        /\ Len(ShouldSkipCalls) = Len(stages) - StartIndex(stages, start_from) + 1
        /\ \A k \in 1..Len(ShouldSkipCalls) :
              ShouldSkipCalls[k].idx = StartIndex(stages, start_from) + k - 1
        /\ completed_stages =
              [k \in 1..Len(NotSkippedCalls) |-> stages[NotSkippedCalls[k].idx]]

C16_Witness ==
    /\ pc = "returned"
    /\ ~dry_run
    /\ stop_after = NONE
    /\ start_from = NONE
    /\ entry_completed = <<>>
    /\ stages = <<"generation", "validation", "write">>
    /\ Len(calls) = 7
    /\ calls[4] = Call("should_skip", 2, "true")
    /\ completed_stages = <<"generation", "write">>

\* C17: in a dry run a stage whose validate_input returns false raises no
\* error; its run is not called, the run goes on with the next stage, and it
\* returns after the last stage of the list has been evaluated.
C17_DryRunToleratesInvalid ==
    /\ \A k \in 1..Len(calls) :
          (dry_run /\ calls[k].op = "validate_input" /\ calls[k].out = "false") =>
              LET i == calls[k].idx
              IN  /\ pc # "raised"
                  /\ error = NOERROR
                  /\ \A l \in 1..Len(calls) : calls[l].idx = i => calls[l].op # "run"
                  /\ IF k < Len(calls)
                     THEN calls[k + 1].op = "should_skip" /\ calls[k + 1].idx = i + 1
                     ELSE \/ pc \in {"for", "skip_check"} /\ idx = i + 1
                          \/ pc = "returned" /\ i = Len(stages)
    /\ (dry_run /\ pc = "returned") =>
          /\ idx = Len(stages) + 1
          /\ Len(ShouldSkipCalls) = Len(stages) - StartIndex(stages, start_from) + 1

C17_Witness ==
    /\ pc = "returned"
    /\ dry_run
    /\ Len(stages) = 3
    /\ start_from = NONE
    /\ stop_after = NONE
    /\ Len(calls) = 6
    /\ calls[2] = Call("validate_input", 1, "false")
    /\ calls[4] = Call("validate_input", 2, "false")
    /\ calls[Len(calls)] = Call("validate_input", 3, "true")

\* ------------------------------------------------------------------------
\* Further properties of ConfigReviewer.review
\* ------------------------------------------------------------------------

\* the lists that the collecting thread took from the futures, one after the other
RECURSIVE Arrivals(_)
Arrivals(order) ==
    IF order = <<>> THEN <<>>
    ELSE results[Head(order)] \o Arrivals(Tail(order))

\* C19: the pool only changes by the collecting thread appending the whole
\* list of one completed worker (a worker's own step leaves the pool alone),
\* so in every interleaving the pool is what it was at entry followed by the
\* lists of the collected sources in collection order: nothing is lost.
C19_PoolHasOneWriter ==
    /\ [](rpc # "idle" => issues = entry_pool \o Arrivals(collected))
    /\ [][issues' # issues =>
             /\ futures' = futures
             /\ results' = results
             /\ Len(collected') = Len(collected) + 1
             /\ issues' = issues \o results[collected'[Len(collected')]]]_vars

C19_Witness ==
    /\ rpc = "returned"
    /\ ncalls = 2
    /\ collected = <<"Gemini", "OpenAI">>
    /\ Len(entry_pool) = 1
    /\ Len(results["Gemini"]) = 1
    /\ Len(results["OpenAI"]) = 1
    /\ issues = entry_pool \o results["Gemini"] \o results["OpenAI"]

\* ------------------------------------------------------------------------
\* Properties of the stages of stages.py under Pipeline.run
\* ------------------------------------------------------------------------
DataFields == DOMAIN EmptyData

ListFields == {"generated_files", "review_issues"}

\* the stage that produces a field
Owner(f) ==
    CASE f = "profile" -> "setup"
      [] f = "patterns" -> "discovery"
      [] f = "research" -> "research"
      [] f = "answers" -> "questionnaire"
      [] f = "analysis" -> "analysis"
      [] f = "generated_files" -> "generation"
      [] f = "validation" -> "validation"
      [] f = "review_issues" -> "review"

\* the field holds a value
IsSet(f, ctx) == IF f \in ListFields THEN ctx[f] # <<>> ELSE ~IsNone(ctx[f])

\* the value the field holds is the one the caller's context came with
FromCaller(f, ctx) ==
    IF f \in ListFields THEN ctx[f] # <<>> /\ ctx[f] = ReloadedData[f]
    ELSE ctx[f].by = "caller"

IsPrefix(a, b) == Len(a) <= Len(b) /\ SubSeq(b, 1, Len(a)) = a

\* the successful run calls on the stage of a name
RunOkOf(name) ==
    {k \in 1..Len(calls) : calls[k] = Call("run", calls[k].idx, "ok")
                             /\ stages[calls[k].idx] = name}

C15_FindingsNeverAbort ==
    \A k \in 1..Len(calls) :
        (calls[k].op = "run" /\ stages[calls[k].idx] \in {"validation", "review"}) =>
            calls[k].out = "ok"

\* C18: review only returns (or raises) when every worker it submitted has
\* finished, so while Pipeline.run is anywhere but inside ReviewStage.run no
\* worker is running; and the stages are called one after the other, a stage
\* only after the calls on the stage before it.
C18_StagesNeverOverlap ==
    /\ [](rpc \in {"returned", "raised"} =>
             \A s \in Sources : futures[s] \in {"unsubmitted", "done"})
    /\ [](pc # "review_stage" => \A s \in Sources : futures[s] = "unsubmitted")
    /\ [][(pc = "review_stage" /\ pc' # "review_stage") =>
             \A s \in Sources : futures[s] \in {"unsubmitted", "done"}]_vars
    /\ [](\A k, l \in 1..Len(calls) : k < l => calls[k].idx <= calls[l].idx)

C18_Witness ==
    /\ pc = "returned"
    /\ ~dry_run
    /\ RunOkOf("review") # {}
    /\ RunOkOf("write") # {}
    /\ Len(context.review_issues) = 2
    /\ context.review_issues[1].source # context.review_issues[2].source

\* C20 as stated: after the run of WriteStage has returned, every file of
\* context.generated_files is in the output directory with its content.
C20_WrittenFilesExist ==
    (concrete /\ RunOkOf("write") # {}) =>
        \A k \in 1..Len(context.generated_files) :
            /\ context.generated_files[k].path \in DOMAIN disk
            /\ disk[context.generated_files[k].path] = context.generated_files[k].content

\* ------------------------------------------------------------------------
\* Stop point, observer and start index of Pipeline.run
\* ------------------------------------------------------------------------

\* the stages before index i that the run reached and that stop_after names
StopPointsBefore(i) ==
    {j \in StartIndex(stages, start_from)..(i - 1) : stages[j] = stop_after}

\* C21 as stated: the run ends at the stage named by stop_after whatever
\* became of that stage (skipped, invalid in a dry run, passed over by a dry
\* run, or run): nothing of a later stage is called or notified, and a run
\* whose loop stands at a stage has not gone beyond it.
C21_StopAfterWhateverDisposition ==
    (pc # "idle" /\ stop_after # NONE) =>
        /\ \A k \in 1..Len(calls) : StopPointsBefore(calls[k].idx) = {}
        /\ \A n \in 1..Len(notified) : StopPointsBefore(notified[n][2]) = {}
        /\ idx <= Len(stages) => StopPointsBefore(idx) = {}

\* the stages the loop of Pipeline.run has reached so far
ReachedCount ==
    IF pc = "for" \/ idx > Len(stages)
    THEN idx - StartIndex(stages, start_from)
    ELSE idx - StartIndex(stages, start_from) + 1

\* C22: with an observer, every stage the run reaches from the start index on
\* is notified exactly once, in stage order, with (name, absolute index + 1,
\* length of the whole list), and before its should_skip is evaluated; this
\* is so for skipped stages, dry runs and resumed runs alike, and no stage
\* before the start index is notified.
C22_NotifiedOncePerReachedStage ==
    (pc # "idle" /\ on_progress # "none") =>
        LET p == StartIndex(stages, start_from)
        IN  /\ Len(notified) = ReachedCount
            /\ \A n \in 1..Len(notified) :
                  notified[n] = <<stages[p + n - 1], p + n - 1, Len(stages)>>
            /\ \A k \in 1..Len(ShouldSkipCalls) :
                  /\ k <= Len(notified)
                  /\ ShouldSkipCalls[k].idx = notified[k][2]
            /\ pc = "skip_check" => Len(ShouldSkipCalls) = Len(notified) - 1

C22_Witness ==
    /\ pc = "returned"
    /\ on_progress = "returns"
    /\ dry_run
    /\ Len(stages) = 3
    /\ stages[1] # stages[2]
    /\ start_from = stages[2]
    /\ calls = <<Call("should_skip", 2, "true"), Call("should_skip", 3, "false"),
                 Call("validate_input", 3, "true")>>
    /\ notified = <<<<stages[2], 2, 3>>, <<stages[3], 3, 3>>>>

\* ------------------------------------------------------------------------
\* Further properties of the stages of stages.py
\* ------------------------------------------------------------------------

\* C23 as stated: after the run of ReviewStage, context.review_issues is
\* ordered by the rank of the (closed-set) severity ascending and then by
\* confidence descending, whatever severity strings the models answered with.
C23_ReviewIssuesRanked ==
    RunOkOf("review") # {} =>
        \A i, j \in 1..Len(context.review_issues) :
            i < j =>
                LET a == context.review_issues[i]
                    b == context.review_issues[j]
                IN  \/ RankOf(a.severity) < RankOf(b.severity)
                    \/ /\ RankOf(a.severity) = RankOf(b.severity)
                       /\ a.confidence >= b.confidence

\* C24: a start_from that names no stage of the list raises no error and the
\* run starts at the first stage and goes through the whole list; a start_from
\* that several stages share starts the run at the first of them.
C24_UnknownStartRunsAll ==
    (pc # "idle" /\ start_from # NONE) =>
        /\ start_from \notin Range(stages) =>
              /\ \A k \in 1..Len(ShouldSkipCalls) : ShouldSkipCalls[k].idx = k
              /\ \A n \in 1..Len(notified) : notified[n][2] = n
              /\ pc = "raised" => Len(calls) > 0 \/ Len(notified) > 0
              /\ (pc = "returned" /\ idx > Len(stages)) =>
                    Len(ShouldSkipCalls) = Len(stages)
              /\ (pc = "returned" /\ idx <= Len(stages)) =>
                    stages[idx] = stop_after /\ Len(ShouldSkipCalls) = idx
        /\ start_from \in Range(stages) =>
              LET first == StartIndex(stages, start_from)
              IN  /\ stages[first] = start_from
                  /\ \A j \in 1..(first - 1) : stages[j] # start_from
                  /\ \A k \in 1..Len(ShouldSkipCalls) :
                        ShouldSkipCalls[k].idx = first + k - 1

C24_Witness ==
    /\ pc = "returned"
    /\ ~dry_run
    /\ stages = <<"generation", "validation", "generation">>
    /\ start_from = "write"
    /\ stop_after = NONE
    /\ error = NOERROR
    /\ completed_stages = entry_completed \o stages

\* ------------------------------------------------------------------------
\* completed_stages under Pipeline.run
\* ------------------------------------------------------------------------

\* C25: Pipeline.run never consults completed_stages. A reached stage that is
\* not skipped and is valid is run in a non-dry run, also when its name is in
\* completed_stages already, and when its run returns the name is appended
\* (again); within a run completed_stages changes in no other way, so what it
\* held before stays a prefix.
C25_CompletedNeverConsulted ==
    /\ [][(pc = "validate" /\ calls'[Len(calls')] = Call("validate_input", idx, "true"))
             => pc' = "dry_check" /\ idx' = idx]_vars
    /\ [][(pc = "dry_check" /\ ~dry_run) => pc' = "execute" /\ idx' = idx]_vars
    /\ [][pc = "execute" =>
             /\ Len(calls') = Len(calls) + 1
             /\ calls'[Len(calls')].op = "run"
             /\ calls'[Len(calls')].idx = idx
             /\ calls'[Len(calls')].out = "ok" =>
                   completed_stages' = Append(completed_stages, stages[idx])]_vars
    /\ [][pc # "idle" =>
             /\ IsPrefix(completed_stages, completed_stages')
             /\ completed_stages' # completed_stages =>
                   /\ pc = "execute"
                   /\ completed_stages' = Append(completed_stages, stages[idx])]_vars

C25_Witness ==
    /\ pc = "returned"
    /\ entry_completed = <<"generation">>
    /\ stages = <<"generation", "validation", "generation">>
    /\ start_from = NONE
    /\ completed_stages = <<"generation", "generation", "validation", "generation">>

\* ------------------------------------------------------------------------
\* Completion order and repeated calls of ConfigReviewer.review
\* ------------------------------------------------------------------------
Reverse(seq) == [k \in 1..Len(seq) |-> seq[Len(seq) + 1 - k]]

KeysOf(seq) == {KeyOf(seq[k]) : k \in 1..Len(seq)}

\* what review returns when the same workers complete in the opposite order
OtherOrder == DeduplicateIssues(entry_pool \o Arrivals(Reverse(collected)))

\* the source that completed first among those whose list has the key
FirstReporter(key) ==
    collected[CHOOSE k \in 1..Len(collected) :
                 /\ key \in KeysOf(results[collected[k]])
                 /\ \A l \in 1..(k - 1) : key \notin KeysOf(results[collected[l]])]

\* C26: whatever the order in which the sources complete, review returns the
\* same set of dedupe keys and the same number of issues; the issue returned
\* for a key that this call's sources reported (and the pool did not hold
\* before) is the one of the source that completed first among them.
C26_OrderDecidesRetainedIssue ==
    rpc = "returned" =>
        /\ KeysOf(OtherOrder) = KeysOf(returned)
        /\ Len(OtherOrder) = Len(returned)
        /\ Len(returned) = Cardinality(KeysOf(returned))
        /\ \A r \in 1..Len(returned) :
              LET key == KeyOf(returned[r])
              IN  (key \notin KeysOf(entry_pool)) =>
                      /\ \E k \in 1..Len(collected) : key \in KeysOf(results[collected[k]])
                      /\ \E k \in 1..Len(results[FirstReporter(key)]) :
                            returned[r] = results[FirstReporter(key)][k]
                      /\ returned[r].source = SourceLabel(FirstReporter(key))

\* two sources report the same key with different severities: the content
\* returned depends on which completed first
C26_Witness ==
    /\ rpc = "returned"
    /\ ncalls = 1
    /\ collected = <<"Gemini", "OpenAI">>
    /\ Len(results["Gemini"]) = 1
    /\ Len(results["OpenAI"]) = 1
    /\ KeyOf(results["Gemini"][1]) = KeyOf(results["OpenAI"][1])
    /\ results["Gemini"][1].severity = "low"
    /\ results["OpenAI"][1].severity = "critical"
    /\ returned = <<results["Gemini"][1]>>
    /\ OtherOrder = <<results["OpenAI"][1]>>
    /\ OtherOrder # returned

\* C27: the pool of a ConfigReviewer is never cleared. A review call starts
\* on the pool the calls before it left and the pool only grows, so what a
\* call returns is the deduplication of the findings of all calls so far: one
\* issue per key of the whole pool, the first of the pool that has the key;
\* an issue of an earlier call is returned again and shadows a later finding
\* with its key.
C27_PoolNeverCleared ==
    /\ [][IsPrefix(issues, issues')]_vars
    /\ [][ncalls' # ncalls => entry_pool' = issues /\ issues' = issues]_vars
    /\ [](rpc = "returned" =>
             /\ IsPrefix(entry_pool, issues)
             /\ KeysOf(returned) = KeysOf(issues)
             /\ Len(returned) = Cardinality(KeysOf(issues))
             /\ \A r \in 1..Len(returned) :
                   /\ \E p \in 1..Len(issues) :
                         /\ returned[r] = issues[p]
                         /\ \A q \in 1..(p - 1) : KeyOf(issues[q]) # KeyOf(issues[p])
                   /\ KeyOf(returned[r]) \in KeysOf(entry_pool) =>
                         \E p \in 1..Len(entry_pool) : returned[r] = entry_pool[p]
             /\ \A p \in 1..Len(entry_pool) :
                   KeyOf(entry_pool[p]) \in KeysOf(returned))

\* the second call finds only a duplicate of what the first call found: the
\* first call's issue is returned and the new finding is not
C27_Witness ==
    /\ rpc = "returned"
    /\ ncalls = 2
    /\ Len(entry_pool) = 1
    /\ Len(issues) = 2
    /\ issues[2] # issues[1]
    /\ issues[2].severity # issues[1].severity
    /\ KeyOf(issues[2]) = KeyOf(issues[1])
    /\ returned = <<entry_pool[1]>>

\* ------------------------------------------------------------------------
\* Frame of the stages of stages.py
\* ------------------------------------------------------------------------

\* the fields of the context that a step changes
ChangedFields == {f \in DataFields : context'[f] # context[f]}

\* the field a stage's run assigns; WriteStage assigns none
OwnedFields(name) == {f \in DataFields : Owner(f) = name}

\* C28: the run of a stage of stages.py changes no field of the context but
\* the one it owns (setup profile, discovery patterns, research research,
\* questionnaire answers, analysis analysis, generation generated_files,
\* validation validation, review review_issues, write none), and no other
\* step of the run changes a field; current_stage is only set by the loop
\* head of Pipeline.run and completed_stages only by its append after a run
\* that returned.
C28_StagesWriteOwnFieldOnly ==
    [][pc # "idle" =>
          /\ ChangedFields # {} => pc \in {"execute", "review_stage"}
          /\ \A f \in ChangedFields :
                idx <= Len(stages) /\ f \in OwnedFields(stages[idx])
          /\ current_stage' # current_stage =>
                pc = "for" /\ current_stage' = stages[idx]
          /\ completed_stages' # completed_stages =>
                /\ pc \in {"execute", "review_stage"}
                /\ completed_stages' = Append(completed_stages, stages[idx])
                /\ calls' = Append(calls, Call("run", idx, "ok"))]_vars

C28_Witness ==
    /\ pc = "returned"
    /\ completed_stages = CliStages
    /\ current_stage = "write"
    /\ context.profile.by = "setup"
    /\ context.patterns.by = "discovery"
    /\ context.research.by = "research"
    /\ context.answers.by = "questionnaire"
    /\ context.analysis.by = "analysis"
    /\ Len(context.generated_files) = 3
    /\ context.validation.by = "validation"
    /\ Len(context.review_issues) = 1

\* ------------------------------------------------------------------------
\* A failing CriticalAnalysisStage
\* ------------------------------------------------------------------------

\* the run calls on the analysis stage that raised
FailedAnalysisCalls ==
    {k \in 1..Len(calls) : /\ calls[k].op = "run"
                           /\ calls[k].out # "ok"
                           /\ stages[calls[k].idx] = "analysis"}

\* C29: a failing stage can leave its field populated. When the analysis
\* stage is executed, the user's declining is a possible outcome, and it
\* raises with context.analysis set to the new result (the one with the
\* concerns the user was asked about). After a failed run of the analysis
\* stage current_stage is "analysis", "analysis" is not in completed_stages,
\* and the context stays as the stage left it: the analysis it holds is the
\* new one, or (when the stage failed before its assignment) the one it held.
C29_FailedAnalysisKeepsResult ==
    /\ (pc = "execute" /\ stages[idx] = "analysis") =>
          \E res \in RunResults :
              /\ res.out = "Exception"
              /\ res.context = [context EXCEPT !.analysis = [by |-> "analysis", concerns |-> TRUE]]
    /\ FailedAnalysisCalls # {} =>
          /\ pc \in {"on_error", "raised"}
          /\ current_stage = "analysis"
          /\ "analysis" \notin Range(completed_stages)
          /\ \/ context.analysis = [by |-> "analysis", concerns |-> TRUE]
             \/ context.analysis = (IF entry_completed = <<>> THEN EmptyData ELSE ReloadedData).analysis

C29_Witness ==
    /\ pc = "raised"
    /\ error.type = "Exception"
    /\ start_from = NONE
    /\ entry_completed = <<>>
    /\ calls[Len(calls)] = Call("on_error", 5, "context")
    /\ FailedAnalysisCalls # {}
    /\ context.analysis = [by |-> "analysis", concerns |-> TRUE]
    /\ current_stage = "analysis"
    /\ completed_stages = <<"setup", "discovery", "research", "questionnaire">>

\* ------------------------------------------------------------------------
\* Properties of Pipeline.run_stage
\* ------------------------------------------------------------------------

\* C30: run_stage(name, context) calls the run of the first stage of that
\* name and nothing else: no should_skip, no validate_input, no on_error and
\* no observer; it returns when the run returns and raises what the run
\* raises; completed_stages and current_stage stay as they were. When no stage
\* has the name it raises a ValueError naming it and calls no stage.
C30_RunStageOnlyRuns ==
    pc \in {"stage_returned", "stage_raised"} =>
        /\ Len(calls) <= 1
        /\ notified = <<>>
        /\ completed_stages = entry_completed
        /\ current_stage = ""
        /\ Len(calls) = 1 =>
              LET c == calls[1]
              IN  /\ c.op = "run"
                  /\ \A j \in 1..(c.idx - 1) : stages[j] # stages[c.idx]
                  /\ pc = "stage_returned" <=> c.out = "ok"
                  /\ c.out = "ok" => error = NOERROR
                  /\ c.out # "ok" => error = [type |-> c.out, stage |-> UNNAMED]
        /\ Len(calls) = 0 =>
              /\ pc = "stage_raised"
              /\ error.type = "ValueError"
              /\ error.stage \notin Range(stages)
        /\ error.type = "ValueError" => Len(calls) = 0

C30_Witness ==
    /\ pc = "stage_returned"
    /\ stages = <<"validation", "generation", "generation">>
    /\ calls = <<Call("run", 2, "ok")>>
    /\ entry_completed = <<"generation">>
    /\ completed_stages = <<"generation">>

====
